---- MODULE Spec2Model ----
(***************************************************************************)
(* Collateral optimisation: run(input_data, solver_params) of main.py.     *)
(*                                                                         *)
(* One call of run() is modelled as a state machine                        *)
(*   start -> parsed -> built -> solved -> returned                        *)
(*                            \-> raised                                   *)
(* whose steps are the sections of the function: parsing the four input    *)
(* lists into dictionaries, building the linear program, the call of the   *)
(* solver, and the status test with the extraction of the result.          *)
(*                                                                         *)
(* Numbers.  Input numbers are integers; available_quantity is an extended *)
(* number (a finite integer or float('inf')), as is every right-hand side  *)
(* of a constraint.  The solver is the external collaborator: it is        *)
(* modelled as an exact solver that searches the integer points of the box *)
(* GridMin..GridMax per variable.  The values it reports are fixed-point   *)
(* numbers with Ticks ticks per unit.                                      *)
(***************************************************************************)
EXTENDS Integers, Sequences, FiniteSets, TLC

VARIABLES
    pc,           \* position inside run()
    input_data,   \* the argument of run()
    I, J,         \* lists of asset ids / account ids
    Q_i, V_i, omega_i, C_j,   \* per-id dictionaries
    H_ij, L_ij,   \* sparse dictionaries keyed by <<asset_id, account_id>>
    prob,         \* the LpProblem handed to the solver
    status,       \* prob.status after prob.solve
    varValue,     \* Q_vars[(i, j)].varValue, in ticks
    res           \* the value returned by run()

vars == <<pc, input_data, I, J, Q_i, V_i, omega_i, C_j, H_ij, L_ij,
          prob, status, varValue, res>>

----------------------------------------------------------------------------
(* Bounds of the model *)

MaxQty == 2
MaxEntries == 2
RayMax == 1
MaxArtifacts == 1
Ticks == 4

GridMin == 0 - 1
GridMax == MaxQty + 1

----------------------------------------------------------------------------
(* Extended numbers: finite integers and float('inf') *)

Fin(n) == [inf |-> FALSE, val |-> n]
PosInf == [inf |-> TRUE, val |-> 0]
LeqExt(x, r) == r.inf \/ x <= r.val
GeqExt(x, r) == (~r.inf) /\ x >= r.val

----------------------------------------------------------------------------
(* Python dictionaries *)

EmptyDict == [k \in {} |-> 0]

\* d[k] = v
DictSet(d, k, v) == [x \in (DOMAIN d) \cup {k} |-> IF x = k THEN v ELSE d[x]]

\* d.get(k, default)
DictGet(d, k, default) == IF k \in DOMAIN d THEN d[k] ELSE default

RECURSIVE ListComp(_, _)
\* [row[field] for row in rows]
ListComp(rows, field) ==
    IF rows = <<>> THEN <<>>
    ELSE <<Head(rows)[field]>> \o ListComp(Tail(rows), field)

RECURSIVE DictComp(_, _, _)
\* {row[key]: row[field] for row in rows}
DictComp(rows, key, field) ==
    IF rows = <<>> THEN EmptyDict
    ELSE LET rest == DictComp(SubSeq(rows, 1, Len(rows) - 1), key, field)
             last == rows[Len(rows)]
         IN  DictSet(rest, last[key], last[field])

RECURSIVE MatrixDict(_, _)
\* for entry in rows: d[(entry["asset_id"], entry["account_id"])] = entry[field]
MatrixDict(rows, field) ==
    IF rows = <<>> THEN EmptyDict
    ELSE LET rest == MatrixDict(SubSeq(rows, 1, Len(rows) - 1), field)
             last == rows[Len(rows)]
         IN  DictSet(rest, <<last.asset_id, last.account_id>>, last[field])

----------------------------------------------------------------------------
(* Program constants *)

LpStatusNotSolved == "Not Solved"
LpStatusOptimal == "Optimal"
LpStatusInfeasible == "Infeasible"
LpStatusUnbounded == "Unbounded"

NoSolutionStatus == "No optimal solution found."

\* Python's None, and a present value, for total_collateral_cost
None == <<>>
Some(x) == <<x>>

\* a variable domain that admits a value below zero
lowBound_mut == GridMin

lowBound == 0
DefaultHaircut == 1
DefaultLimit == PosInf

----------------------------------------------------------------------------
(* Parse Input Data (lines 28-55) *)

ParseI(data) == ListComp(data.assets, "asset_id")
ParseQ_i(data) == DictComp(data.assets, "asset_id", "available_quantity")
ParseV_i(data) == DictComp(data.assets, "asset_id", "market_value")
ParseOmega_i(data) == DictComp(data.assets, "asset_id", "tier_rating")
ParseJ(data) == ListComp(data.accounts, "account_id")
ParseC_j(data) == DictComp(data.accounts, "account_id", "collateral_requirement")
ParseH_ij(data) == MatrixDict(data.haircut_matrix, "haircut")
ParseL_ij(data) == MatrixDict(data.limit_matrix, "max_allocation")

----------------------------------------------------------------------------
(* Define the problem (lines 62-86) *)

\* [(i, j) for i in I for j in J], as a set of keys
VarKeys(Is, Js) == {<<Is[a], Js[b]>> : a \in 1..Len(Is), b \in 1..Len(Js)}

\* one term of a linear expression: coef * Q_vars[var]
Term(p, c) == [var |-> p, coef |-> c]

RECURSIVE ObjectiveRow(_, _, _, _, _)
\* omega_i[i] * Q_vars[(i, j)] * V_i[i] * H_ij.get((i, j), 1) for j in J
ObjectiveRow(i, Js, om, V, H) ==
    IF Js = <<>> THEN <<>>
    ELSE <<Term(<<i, Head(Js)>>,
                om[i] * V[i] * DictGet(H, <<i, Head(Js)>>, DefaultHaircut))>>
         \o ObjectiveRow(i, Tail(Js), om, V, H)

RECURSIVE Objective(_, _, _, _, _)
\* lpSum(omega_i[i] * Q_vars[(i, j)] * V_i[i] * H_ij.get((i, j), 1) for i in I for j in J)
Objective(Is, Js, om, V, H) ==
    IF Is = <<>> THEN <<>>
    ELSE ObjectiveRow(Head(Is), Js, om, V, H) \o Objective(Tail(Is), Js, om, V, H)

\* the requirement of an account with the haircut left out of the posted value
RequirementConstraint_mut(j, Is, V, H, C) ==
    [name  |-> <<"Collateral_Requirement_Account", j>>,
     terms |-> [a \in 1..Len(Is) |-> Term(<<Is[a], j>>, V[Is[a]])],
     sense |-> ">=",
     rhs   |-> Fin(C[j])]

\* lpSum(Q_vars[(i, j)] * V_i[i] * H_ij.get((i, j), 1) for i in I) >= C_j[j]
RequirementConstraint(j, Is, V, H, C) ==
    [name  |-> <<"Collateral_Requirement_Account", j>>,
     terms |-> [a \in 1..Len(Is) |->
                    Term(<<Is[a], j>>, V[Is[a]] * DictGet(H, <<Is[a], j>>, DefaultHaircut))],
     sense |-> ">=",
     rhs   |-> Fin(C[j])]

\* lpSum(Q_vars[(i, j)] for j in J) <= Q_i[i]
QuantityConstraint(i, Js, Q) ==
    [name  |-> <<"Asset_Quantity_Limit_Asset", i>>,
     terms |-> [b \in 1..Len(Js) |-> Term(<<i, Js[b]>>, 1)],
     sense |-> "<=",
     rhs   |-> Q[i]]

\* the right-hand side of an allocation limit: L_ij.get((i, j), float('inf'))
LimitRhs(L, p) == IF p \in DOMAIN L THEN Fin(L[p]) ELSE DefaultLimit

\* Q_vars[(i, j)] * V_i[i] <= L_ij.get((i, j), float('inf'))
AllocationConstraint(i, j, V, L) ==
    [name  |-> <<"Allocation_Limit_Asset", i, "Account", j>>,
     terms |-> <<Term(<<i, j>>, V[i])>>,
     sense |-> "<=",
     rhs   |-> LimitRhs(L, <<i, j>>)]

\* the requirement constraints left out of a model without assets
RequirementConstraints_mut(Is, Js, V, H, C) ==
    IF Is = <<>> THEN <<>>
    ELSE [b \in 1..Len(Js) |-> RequirementConstraint(Js[b], Is, V, H, C)]

\* for j in J: prob += requirement constraint
RequirementConstraints(Is, Js, V, H, C) ==
    [b \in 1..Len(Js) |-> RequirementConstraint(Js[b], Is, V, H, C)]

\* for i in I: prob += quantity constraint
QuantityConstraints(Is, Js, Q) ==
    [a \in 1..Len(Is) |-> QuantityConstraint(Is[a], Js, Q)]

RECURSIVE AllocationRow(_, _, _, _)
\* for j in J: prob += allocation constraint of (i, j)
AllocationRow(i, Js, V, L) ==
    IF Js = <<>> THEN <<>>
    ELSE <<AllocationConstraint(i, Head(Js), V, L)>> \o AllocationRow(i, Tail(Js), V, L)

RECURSIVE AllocationConstraints(_, _, _, _)
\* for i in I: for j in J: prob += allocation constraint of (i, j)
AllocationConstraints(Is, Js, V, L) ==
    IF Is = <<>> THEN <<>>
    ELSE AllocationRow(Head(Is), Js, V, L) \o AllocationConstraints(Tail(Is), Js, V, L)

EmptyProblem ==
    [variables |-> {}, lowBound |-> lowBound, objective |-> <<>>, constraints |-> <<>>]

BuildProblem(Is, Js, Q, V, om, C, H, L) ==
    [variables   |-> VarKeys(Is, Js),
     lowBound    |-> lowBound,
     objective   |-> Objective(Is, Js, om, V, H),
     constraints |-> RequirementConstraints(Is, Js, V, H, C)
                     \o QuantityConstraints(Is, Js, Q)
                     \o AllocationConstraints(Is, Js, V, L)]

----------------------------------------------------------------------------
(* The solver (prob.solve, line 92): an exact solver over the integer      *)
(* points of the box lowBound..GridMax                                     *)

RECURSIVE Dot(_, _)
\* the value of the linear expression with the terms e at the point q
Dot(e, q) ==
    IF e = <<>> THEN 0
    ELSE Head(e).coef * q[Head(e).var] + Dot(Tail(e), q)

Satisfies(con, q) ==
    IF con.sense = "<=" THEN LeqExt(Dot(con.terms, q), con.rhs)
                        ELSE GeqExt(Dot(con.terms, q), con.rhs)

SatisfiesAll(P, q) ==
    \A k \in 1..Len(P.constraints) : Satisfies(P.constraints[k], q)

WithinBounds(P, q) == \A p \in P.variables : q[p] >= P.lowBound

FeasiblePoints(P) ==
    {q \in [P.variables -> P.lowBound..GridMax] : SatisfiesAll(P, q)}

\* a direction along which the feasible region is unbounded and the
\* objective decreases
ImprovingRay(P, d) ==
    /\ Dot(P.objective, d) < 0
    /\ \A k \in 1..Len(P.constraints) :
          LET con == P.constraints[k]
          IN  IF con.sense = "<=" THEN con.rhs.inf \/ Dot(con.terms, d) <= 0
                                  ELSE Dot(con.terms, d) >= 0

HasImprovingRay(P) == \E d \in [P.variables -> 0..RayMax] : ImprovingRay(P, d)

\* the least element of a non-empty finite set of integers
Min(S) == CHOOSE m \in S : \A x \in S : m <= x

\* the points of F at which the objective is least
Argmin(P, F) ==
    LET least == Min({Dot(P.objective, q) : q \in F})
    IN  {q \in F : Dot(P.objective, q) = least}

\* what an exact solver answers: a status and the set of points it may report
SolverAnswer(P) ==
    LET F == FeasiblePoints(P)
    IN  IF F = {} THEN [status |-> LpStatusInfeasible, points |-> {}]
        ELSE IF HasImprovingRay(P) THEN [status |-> LpStatusUnbounded, points |-> {}]
        ELSE [status |-> LpStatusOptimal, points |-> Argmin(P, F)]

\* the subsets of the variables that are 0 at q, of at most MaxArtifacts elements:
\* the variables a solver of finite tolerance may report just below 0
Artifacts(P, q) ==
    {S \in SUBSET {p \in P.variables : q[p] = 0} : Cardinality(S) <= MaxArtifacts}

\* the values reported for the point q, in ticks
Reported(P, q, S) ==
    [p \in P.variables |-> IF p \in S THEN 0 - 1 ELSE q[p] * Ticks]

----------------------------------------------------------------------------
(* Extract Results (lines 95-131) *)

IsNotOptimal(st) == st # LpStatusOptimal

\* a no-solution result with a cost of 0 in place of None
NoSolutionResult_mut ==
    [allocation_matrix |-> <<>>,
     total_collateral_cost |-> Some(0),
     status |-> NoSolutionStatus]

NoSolutionResult ==
    [allocation_matrix |-> <<>>,
     total_collateral_cost |-> None,
     status |-> NoSolutionStatus]

AllocationFraction(val) == val

RECURSIVE ExtractRow(_, _, _)
\* for j in J: allocation_matrix.append(...)
ExtractRow(i, Js, val) ==
    IF Js = <<>> THEN <<>>
    ELSE <<[asset_id |-> i, account_id |-> Head(Js),
            allocation_fraction |-> AllocationFraction(val[<<i, Head(Js)>>])]>>
         \o ExtractRow(i, Tail(Js), val)

RECURSIVE ExtractColumn(_, _, _)
ExtractColumn(Is, j, val) ==
    IF Is = <<>> THEN <<>>
    ELSE <<[asset_id |-> Head(Is), account_id |-> j,
            allocation_fraction |-> AllocationFraction(val[<<Head(Is), j>>])]>>
         \o ExtractColumn(Tail(Is), j, val)

RECURSIVE ExtractMatrix_mut(_, _, _)
\* the loops exchanged: for j in J: for i in I
ExtractMatrix_mut(Is, Js, val) ==
    IF Js = <<>> THEN <<>>
    ELSE ExtractColumn(Is, Head(Js), val) \o ExtractMatrix_mut(Is, Tail(Js), val)

RECURSIVE ExtractMatrix(_, _, _)
\* for i in I: for j in J: allocation_matrix.append(...)
ExtractMatrix(Is, Js, val) ==
    IF Is = <<>> THEN <<>>
    ELSE ExtractRow(Head(Is), Js, val) \o ExtractMatrix(Tail(Is), Js, val)

\* value(prob.objective), in ticks
ObjectiveValue(P, val) == Dot(P.objective, val)

Result(st, P, Is, Js, val) ==
    IF IsNotOptimal(st) THEN NoSolutionResult
    ELSE [allocation_matrix |-> ExtractMatrix(Is, Js, val),
          total_collateral_cost |-> Some(ObjectiveValue(P, val))]

----------------------------------------------------------------------------
(* The inputs of run() *)

AssetIds == {"A1", "A2"}
AccountIds == {"J1", "J2"}
UnknownId == "X9"

Asset(i, q, v, t) ==
    [asset_id |-> i, available_quantity |-> q, market_value |-> v, tier_rating |-> t]
Account(j, c) == [account_id |-> j, collateral_requirement |-> c]
HaircutEntry(i, j, h) == [asset_id |-> i, account_id |-> j, haircut |-> h]
LimitEntry(i, j, l) == [asset_id |-> i, account_id |-> j, max_allocation |-> l]

\* assets with finite, positive fields
CoreAssets ==
    {Asset(i, Fin(q), vt[1], vt[2]) :
        i \in AssetIds, q \in {1, MaxQty}, vt \in {<<1, 1>>, <<2, 2>>}}

\* assets at the edges of the domain, and outside it
EdgeAssets ==
    {Asset(i, qvt[1], qvt[2], qvt[3]) :
        i \in AssetIds,
        qvt \in {<<Fin(0), 1, 1>>, <<Fin(MaxQty), 0, 1>>, <<Fin(MaxQty), 1, 0>>,
                 <<Fin(0 - 1), 1, 1>>, <<Fin(MaxQty), 0 - 1, 1>>,
                 <<Fin(MaxQty), 1, 0 - 1>>, <<PosInf, 1, 0 - 1>>, <<PosInf, 1, 1>>}}

CoreAccounts == {Account(j, c) : j \in AccountIds, c \in {1, MaxQty}}
EdgeAccounts == {Account(j, c) : j \in AccountIds, c \in {0 - 1, 0}}

\* the lists of at most two records of S with distinct ids
Lists(S, id) ==
    {<<>>} \cup {<<x>> : x \in S}
           \cup {<<x[1], x[2]>> : x \in {y \in S \X S : y[1][id] # y[2][id]}}

AssetLists == Lists(CoreAssets, "asset_id") \cup {<<x>> : x \in EdgeAssets}
AccountLists == Lists(CoreAccounts, "account_id") \cup {<<x>> : x \in EdgeAccounts}

CoreHaircuts ==
    {HaircutEntry(p[1], p[2], h) : p \in {<<"A1", "J1">>, <<"A2", "J2">>}, h \in {0, 2}}
EdgeHaircuts ==
    {HaircutEntry(UnknownId, "J1", 2), HaircutEntry("A1", UnknownId, 2),
     HaircutEntry("A1", "J1", 0 - 1)}

CoreLimits == {LimitEntry("A1", "J1", 1), LimitEntry("A2", "J2", 1), LimitEntry("A1", "J1", 0)}
EdgeLimits == {LimitEntry(UnknownId, "J1", 1), LimitEntry("A1", "J1", 0 - 1)}

\* the sequences over S of length 0..n
RECURSIVE SeqsUpTo(_, _)
SeqsUpTo(S, n) ==
    IF n = 0 THEN {<<>>}
    ELSE LET shorter == SeqsUpTo(S, n - 1)
         IN  shorter \cup {Append(s, x) : s \in shorter, x \in S}

Input(as, ac, hm, lm) ==
    [assets |-> as, accounts |-> ac, haircut_matrix |-> hm, limit_matrix |-> lm]

\* every list of assets and of accounts, with at most one haircut and one limit
\* of the pair (A1, J1)
NumericInputs ==
    {Input(as, ac, hm, lm) :
        as \in AssetLists, ac \in AccountLists,
        hm \in {<<>>, <<HaircutEntry("A1", "J1", 2)>>, <<HaircutEntry("A1", "J1", 0)>>},
        lm \in {<<>>, <<LimitEntry("A1", "J1", 1)>>}}

\* one or two assets and one or two accounts, with every haircut and limit table
\* of at most MaxEntries entries in all
MatrixInputs ==
    {Input(as, ac, t[1], t[2]) :
        as \in {<<Asset("A1", Fin(MaxQty), 1, 2)>>,
                <<Asset("A1", Fin(MaxQty), 1, 2), Asset("A2", Fin(MaxQty), 2, 1)>>},
        ac \in {<<Account("J1", 1)>>, <<Account("J1", 1), Account("J2", MaxQty)>>},
        t \in {u \in SeqsUpTo(CoreHaircuts \cup EdgeHaircuts, MaxEntries)
                     \X SeqsUpTo(CoreLimits \cup EdgeLimits, MaxEntries) :
                  Len(u[1]) + Len(u[2]) <= MaxEntries}}

Inputs == NumericInputs \cup MatrixInputs

----------------------------------------------------------------------------
(* The steps of run() *)

NoResult == [returned |-> FALSE]

Init ==
    /\ pc = "start"
    /\ input_data \in Inputs
    /\ I = <<>> /\ J = <<>>
    /\ Q_i = EmptyDict /\ V_i = EmptyDict /\ omega_i = EmptyDict /\ C_j = EmptyDict
    /\ H_ij = EmptyDict /\ L_ij = EmptyDict
    /\ prob = EmptyProblem
    /\ status = LpStatusNotSolved
    /\ varValue = EmptyDict
    /\ res = NoResult

\* lines 28-55
Parse ==
    /\ pc = "start"
    /\ I' = ParseI(input_data)
    /\ Q_i' = ParseQ_i(input_data)
    /\ V_i' = ParseV_i(input_data)
    /\ omega_i' = ParseOmega_i(input_data)
    /\ J' = ParseJ(input_data)
    /\ C_j' = ParseC_j(input_data)
    /\ H_ij' = ParseH_ij(input_data)
    /\ L_ij' = ParseL_ij(input_data)
    /\ pc' = "parsed"
    /\ UNCHANGED <<input_data, prob, status, varValue, res>>

\* lines 62-86
Build ==
    /\ pc = "parsed"
    /\ prob' = BuildProblem(I, J, Q_i, V_i, omega_i, C_j, H_ij, L_ij)
    /\ pc' = "built"
    /\ UNCHANGED <<input_data, I, J, Q_i, V_i, omega_i, C_j, H_ij, L_ij,
                   status, varValue, res>>

\* line 92, the solver answers: an exact solver
Solve ==
    /\ pc = "built"
    /\ LET answer == SolverAnswer(prob)
       IN  /\ status' = answer.status
           /\ IF answer.status = LpStatusOptimal
              THEN \E q \in answer.points : varValue' = Reported(prob, q, {})
              ELSE varValue' = EmptyDict
    /\ pc' = "solved"
    /\ UNCHANGED <<input_data, I, J, Q_i, V_i, omega_i, C_j, H_ij, L_ij, prob, res>>

\* line 92, the solver answers: a solver of finite tolerance, which may report
\* a variable that is 0 at the optimum as a value just below 0
SolveTol ==
    /\ pc = "built"
    /\ LET answer == SolverAnswer(prob)
       IN  /\ status' = answer.status
           /\ IF answer.status = LpStatusOptimal
              THEN \E q \in answer.points : \E S \in Artifacts(prob, q) :
                       varValue' = Reported(prob, q, S)
              ELSE varValue' = EmptyDict
    /\ pc' = "solved"
    /\ UNCHANGED <<input_data, I, J, Q_i, V_i, omega_i, C_j, H_ij, L_ij, prob, res>>

\* line 92, the solver fails to run: prob.solve raises and run() has no handler
SolverError ==
    /\ pc = "built"
    /\ pc' = "raised"
    /\ UNCHANGED <<input_data, I, J, Q_i, V_i, omega_i, C_j, H_ij, L_ij,
                   prob, status, varValue, res>>

\* lines 95-131
Return ==
    /\ pc = "solved"
    /\ res' = Result(status, prob, I, J, varValue)
    /\ pc' = "returned"
    /\ UNCHANGED <<input_data, I, J, Q_i, V_i, omega_i, C_j, H_ij, L_ij,
                   prob, status, varValue>>

Next == Parse \/ Build \/ Solve \/ SolverError \/ Return

Spec == Init /\ [][Next]_vars

NextTol == Parse \/ Build \/ SolveTol \/ SolverError \/ Return

SpecTol == Init /\ [][NextTol]_vars

----------------------------------------------------------------------------
(* The specified linear program, read off the input document *)

\* the records of a list, as a set of indices
Idx(s) == 1..Len(s)

\* no two entries of a table have the same (asset_id, account_id)
KeyedOnceTable(t) ==
    \A a, b \in Idx(t) :
        (t[a].asset_id = t[b].asset_id /\ t[a].account_id = t[b].account_id) => a = b

KeyedOnce(data) == KeyedOnceTable(data.haircut_matrix) /\ KeyedOnceTable(data.limit_matrix)

HasEntry(t, i, j) == \E k \in Idx(t) : t[k].asset_id = i /\ t[k].account_id = j

EntryOf(t, i, j) == t[CHOOSE k \in Idx(t) : t[k].asset_id = i /\ t[k].account_id = j]

\* haircut(i, j): the entry of the table, 1 for a pair without one
SpecHaircut(data, i, j) ==
    IF HasEntry(data.haircut_matrix, i, j)
    THEN EntryOf(data.haircut_matrix, i, j).haircut
    ELSE 1

KnownIds(data, t) ==
    \A k \in Idx(t) :
        /\ \E a \in Idx(data.assets) : data.assets[a].asset_id = t[k].asset_id
        /\ \E b \in Idx(data.accounts) : data.accounts[b].account_id = t[k].account_id

\* every number of the input is finite and non-negative
FiniteNonNegative(data) ==
    /\ \A a \in Idx(data.assets) :
          /\ ~data.assets[a].available_quantity.inf
          /\ data.assets[a].available_quantity.val >= 0
          /\ data.assets[a].market_value >= 0
          /\ data.assets[a].tier_rating >= 0
    /\ \A b \in Idx(data.accounts) : data.accounts[b].collateral_requirement >= 0
    /\ \A k \in Idx(data.haircut_matrix) : data.haircut_matrix[k].haircut >= 0
    /\ \A k \in Idx(data.limit_matrix) : data.limit_matrix[k].max_allocation >= 0

\* a negative number, or a table entry of an unknown asset or account
InvalidInput(data) ==
    \/ \E a \in Idx(data.assets) :
          \/ (~data.assets[a].available_quantity.inf
                /\ data.assets[a].available_quantity.val < 0)
          \/ data.assets[a].market_value < 0
          \/ data.assets[a].tier_rating < 0
    \/ \E b \in Idx(data.accounts) : data.accounts[b].collateral_requirement < 0
    \/ \E k \in Idx(data.haircut_matrix) : data.haircut_matrix[k].haircut < 0
    \/ \E k \in Idx(data.limit_matrix) : data.limit_matrix[k].max_allocation < 0
    \/ ~KnownIds(data, data.haircut_matrix)
    \/ ~KnownIds(data, data.limit_matrix)

RECURSIVE SumTo(_, _, _)
\* f(1) + ... + f(n)
SumTo(f(_), n, acc) == IF n = 0 THEN acc ELSE SumTo(f, n - 1, acc + f(n))

\* the point q satisfies the three constraint families of the specification;
\* q(i, j) is in units of 1/scale
SpecFeasibleAt(data, q(_, _), scale) ==
    /\ \A b \in Idx(data.accounts) :
          LET j == data.accounts[b].account_id
              posted(a) == q(data.assets[a].asset_id, j) * data.assets[a].market_value
                             * SpecHaircut(data, data.assets[a].asset_id, j)
          IN  SumTo(posted, Len(data.assets), 0)
                 >= data.accounts[b].collateral_requirement * scale
    /\ \A a \in Idx(data.assets) :
          LET i == data.assets[a].asset_id
              units(b) == q(i, data.accounts[b].account_id)
              avail == data.assets[a].available_quantity
          IN  avail.inf \/ SumTo(units, Len(data.accounts), 0) <= avail.val * scale
    /\ \A k \in Idx(data.limit_matrix) :
          LET e == data.limit_matrix[k]
          IN  \A a \in Idx(data.assets) :
                 (data.assets[a].asset_id = e.asset_id
                    /\ \E b \in Idx(data.accounts) :
                          data.accounts[b].account_id = e.account_id)
                 => q(e.asset_id, e.account_id) * data.assets[a].market_value
                       <= e.max_allocation * scale

\* the allocation_fraction of the pair (i, j) in the returned matrix
FractionOf(m, i, j) ==
    m[CHOOSE k \in Idx(m) : m[k].asset_id = i /\ m[k].account_id = j].allocation_fraction

Returned == pc = "returned"
ReturnedOptimal == pc = "returned" /\ status = LpStatusOptimal

SpecPairs(data) ==
    {<<data.assets[a].asset_id, data.accounts[b].account_id>> :
        a \in Idx(data.assets), b \in Idx(data.accounts)}

\* no point with every Q[i,j] >= 0 satisfies the specified constraints
SpecInfeasible(data) ==
    \A q \in [SpecPairs(data) -> 0..GridMax] :
        LET at(i, j) == q[<<i, j>>] IN ~SpecFeasibleAt(data, at, 1)

----------------------------------------------------------------------------
(* C1: whenever the status after solving is not optimal, run() returns the  *)
(* result with an empty allocation_matrix, a null total_collateral_cost and *)
(* the status "No optimal solution found."; this is the result returned for *)
(* every input whose linear program is infeasible.                          *)
C1_NoSolutionResult ==
    Returned =>
        /\ status # LpStatusOptimal =>
              res = [allocation_matrix |-> <<>>,
                     total_collateral_cost |-> None,
                     status |-> "No optimal solution found."]
        /\ \/ (DOMAIN res = {"allocation_matrix", "total_collateral_cost", "status"}
                 /\ res.allocation_matrix = <<>>
                 /\ res.total_collateral_cost = None
                 /\ res.status = "No optimal solution found.")
           \/ ~KeyedOnce(input_data)
           \/ ~SpecInfeasible(input_data)

\* one asset of quantity 1 and value 1, one account that requires MaxQty: no solution
C1_Witness ==
    /\ Returned
    /\ status = LpStatusInfeasible
    /\ Len(input_data.assets) = 1 /\ Len(input_data.accounts) = 1
    /\ input_data.assets[1].available_quantity = Fin(1)
    /\ input_data.assets[1].market_value = 1
    /\ input_data.accounts[1].collateral_requirement = MaxQty
    /\ input_data.haircut_matrix = <<>> /\ input_data.limit_matrix = <<>>
    /\ res.allocation_matrix = <<>> /\ res.total_collateral_cost = None

(* C2: with an optimal status the allocation_matrix has one entry for each  *)
(* pair of the cross product of the input assets and accounts and no other, *)
(* assets in input order outside, accounts in input order inside.           *)
C2_AssetMajorCrossProduct ==
    ReturnedOptimal =>
        LET m  == res.allocation_matrix
            nI == Len(input_data.assets)
            nJ == Len(input_data.accounts)
        IN  /\ Len(m) = nI * nJ
            /\ \A a \in 1..nI : \A b \in 1..nJ :
                  /\ m[(a - 1) * nJ + b].asset_id = input_data.assets[a].asset_id
                  /\ m[(a - 1) * nJ + b].account_id = input_data.accounts[b].account_id

\* two assets given as A2, A1 and two accounts given as J2, J1
C2_Witness ==
    /\ ReturnedOptimal
    /\ Len(input_data.assets) = 2 /\ Len(input_data.accounts) = 2
    /\ input_data.assets[1].asset_id = "A2"
    /\ input_data.accounts[1].account_id = "J2"
    /\ Len(res.allocation_matrix) = 4
    /\ res.allocation_matrix[2].asset_id = "A2"
    /\ res.allocation_matrix[2].account_id = "J1"
    /\ res.allocation_matrix[3].asset_id = "A1"

(* C3: for an invalid input (a negative number, or a table entry of an      *)
(* unknown asset or account) run() aborts before the linear program is      *)
(* built: it never reaches the solver and never returns a result.           *)
C3_FailFast ==
    InvalidInput(input_data) => pc \in {"start", "parsed"}

(* C4: the linear program holds an allocation-limit constraint for a pair   *)
(* if and only if limit_matrix has an entry for the pair, and no            *)
(* allocation-limit constraint has an infinite right-hand side.             *)
C4_NoInfiniteLimit ==
    (pc = "built" /\ ~InvalidInput(input_data)) =>
        /\ \A p \in SpecPairs(input_data) :
              (\E k \in Idx(prob.constraints) :
                    prob.constraints[k].name = <<"Allocation_Limit_Asset", p[1], "Account", p[2]>>)
              <=> HasEntry(input_data.limit_matrix, p[1], p[2])
        /\ \A k \in Idx(prob.constraints) :
              prob.constraints[k].name[1] = "Allocation_Limit_Asset"
                 => ~prob.constraints[k].rhs.inf

(* C5: a failure of the solver to run aborts the call and is never reported *)
(* as a result, and the result returned for an unbounded status differs     *)
(* from the result returned for an infeasible status.                       *)
C5_OutcomesApart ==
    /\ pc = "raised" => res = NoResult
    /\ (Returned /\ status = LpStatusUnbounded) =>
          res # Result(LpStatusInfeasible, prob, I, J, varValue)

(* C6: every allocation_fraction of a returned result is >= 0: a negative   *)
(* value the solver reports within its tolerance of zero is replaced by 0,  *)
(* every other value is passed through unchanged.                           *)
C6_NonNegativeFractions ==
    (ReturnedOptimal /\ ~InvalidInput(input_data)) =>
        \A k \in Idx(res.allocation_matrix) :
            LET e == res.allocation_matrix[k]
                v == varValue[<<e.asset_id, e.account_id>>]
            IN  /\ e.allocation_fraction >= 0
                /\ e.allocation_fraction = (IF v < 0 THEN 0 ELSE v)

(* C7, as stated: when the assets list or the accounts list is empty the    *)
(* linear program has no constraints and is feasible, and run() returns an  *)
(* empty allocation_matrix with total_collateral_cost 0.                    *)
EmptySide == input_data.assets = <<>> \/ input_data.accounts = <<>>

EmptyOptimalResult == [allocation_matrix |-> <<>>, total_collateral_cost |-> Some(0)]

C7_EmptyModelOptimal ==
    (EmptySide /\ ~InvalidInput(input_data) /\ Returned) =>
        /\ prob.constraints = <<>>
        /\ status = LpStatusOptimal
        /\ res = EmptyOptimalResult

\* every constraint of an empty model is a constant one that holds: with no
\* assets 0 >= collateral_requirement, with no accounts 0 <= available_quantity
ConstantConstraintsHold ==
    /\ input_data.assets = <<>> =>
          \A b \in Idx(input_data.accounts) :
              input_data.accounts[b].collateral_requirement <= 0
    /\ input_data.accounts = <<>> =>
          \A a \in Idx(input_data.assets) :
              \/ input_data.assets[a].available_quantity.inf
              \/ input_data.assets[a].available_quantity.val >= 0

(* C7, amended: when the assets list or the accounts list is empty the      *)
(* linear program has no variables and one constant constraint per account  *)
(* (no assets) or per asset (no accounts); run() returns an empty            *)
(* allocation_matrix with total_collateral_cost 0 when every such           *)
(* constraint holds, and the no-solution result otherwise.                  *)
C7_EmptyModel ==
    EmptySide =>
        /\ pc = "built" =>
              /\ prob.variables = {}
              /\ prob.objective = <<>>
              /\ Len(prob.constraints) =
                    (IF input_data.assets = <<>> THEN Len(input_data.accounts) ELSE 0)
                    + (IF input_data.accounts = <<>> THEN Len(input_data.assets) ELSE 0)
              /\ \A k \in Idx(prob.constraints) : prob.constraints[k].terms = <<>>
        /\ pc = "solved" =>
              status = (IF ConstantConstraintsHold THEN LpStatusOptimal
                                                   ELSE LpStatusInfeasible)
        /\ Returned =>
              res = (IF ConstantConstraintsHold
                     THEN EmptyOptimalResult
                     ELSE [allocation_matrix |-> <<>>,
                           total_collateral_cost |-> None,
                           status |-> "No optimal solution found."])

\* no assets and an account that requires collateral: the no-solution result
C7_Witness ==
    /\ Returned
    /\ input_data.assets = <<>>
    /\ Len(input_data.accounts) = 2
    /\ input_data.accounts[1].collateral_requirement > 0
    /\ res.allocation_matrix = <<>>
    /\ res.total_collateral_cost = None

\* the reorderings of a list
Reorderings(s) == {[k \in Idx(s) |-> s[f[k]]] : f \in Permutations(Idx(s))}

ReorderedInputs(data) ==
    {Input(as, ac, hm, lm) :
        as \in Reorderings(data.assets), ac \in Reorderings(data.accounts),
        hm \in Reorderings(data.haircut_matrix), lm \in Reorderings(data.limit_matrix)}

\* the status and the cost (in ticks) of run() on an input, with an exact solver
Outcome(data) ==
    LET P == BuildProblem(ParseI(data), ParseJ(data), ParseQ_i(data), ParseV_i(data),
                          ParseOmega_i(data), ParseC_j(data), ParseH_ij(data),
                          ParseL_ij(data))
        answer == SolverAnswer(P)
    IN  [status |-> answer.status,
         cost   |-> IF answer.status = LpStatusOptimal
                    THEN Some(Min({Dot(P.objective, q) : q \in answer.points}) * Ticks)
                    ELSE None]

(* C8: the outcome of run() is the same for every reordering of the four    *)
(* input lists: the same status and, when optimal, the same                 *)
(* total_collateral_cost.                                                   *)
C8_OrderInvariant ==
    (Returned /\ ~InvalidInput(input_data)) =>
        \A other \in ReorderedInputs(input_data) :
            /\ Outcome(other).status = status
            /\ status = LpStatusOptimal =>
                  Outcome(other).cost = res.total_collateral_cost

AvailableOf(data, i) ==
    data.assets[CHOOSE a \in Idx(data.assets) : data.assets[a].asset_id = i].available_quantity

(* C10: for an input whose numbers are finite and non-negative the linear   *)
(* program cannot be unbounded: at every point that satisfies the variable  *)
(* bounds and the constraints the objective is >= 0 and every Q[i,j] lies   *)
(* between 0 and available_quantity[i], and the solver answers optimal or   *)
(* infeasible.                                                              *)
C10_NeverUnbounded ==
    FiniteNonNegative(input_data) =>
        /\ pc = "built" =>
              /\ \A q \in [prob.variables -> GridMin..GridMax] :
                    (WithinBounds(prob, q) /\ SatisfiesAll(prob, q)) =>
                        /\ Dot(prob.objective, q) >= 0
                        /\ \A p \in prob.variables :
                              q[p] >= 0 /\ q[p] <= AvailableOf(input_data, p[1]).val
              /\ ~HasImprovingRay(prob)
        /\ pc \in {"solved", "returned"} =>
              status \in {LpStatusOptimal, LpStatusInfeasible}

\* a valid input with two assets and two accounts whose program has a point
\* that uses an asset in full
C10_Witness ==
    /\ pc = "built"
    /\ FiniteNonNegative(input_data)
    /\ Cardinality(prob.variables) = 4
    /\ \E q \in [prob.variables -> 0..GridMax] :
          /\ SatisfiesAll(prob, q)
          /\ \E p \in prob.variables : q[p] = AvailableOf(input_data, p[1]).val /\ q[p] > 0

====
